---- MODULE Spec2Model ----
(***************************************************************************)
(* Model of webpack.config.js of traktflix: the compiler configuration     *)
(* built by getWebpackConfig, the per-target manifest built by getManifest *)
(* and the post-emit asset assembly done by runFinalSteps.                 *)
(*                                                                         *)
(* JavaScript values are tagged records [t, s]: t is the type and s is a   *)
(* sequence (tokens of a string, items of an array, <<key, value>> entries *)
(* of an object in insertion order).  Paths are sequences of segments.     *)
(***************************************************************************)
EXTENDS Integers, Sequences, FiniteSets, TLC

\* number of compile passes the model follows (one build, then watch rebuilds)
MaxPasses == 2

Passes == 1 .. MaxPasses

------------------------------------------------------------------------------
\* JavaScript / JSON values

Undefined == [t |-> "undef", s |-> <<>>]

Str(tokens) == [t |-> "str", s |-> tokens]

S(lit) == Str(<<lit>>)

Num(n) == [t |-> "num", s |-> <<n>>]

Arr(items) == [t |-> "arr", s |-> items]

Obj(entries) == [t |-> "obj", s |-> entries]

\* truthiness as tested by `if (configJson.x)`: undefined and '' are falsy
Truthy(v) == v.t # "undef" /\ ~(v.t = "str" /\ v.s = <<>>)

HasField(o, k) == \E i \in 1 .. Len(o.s) : o.s[i][1] = k

Field(o, k) ==
  IF HasField(o, k)
    THEN o.s[CHOOSE i \in 1 .. Len(o.s) : o.s[i][1] = k][2]
    ELSE Undefined

\* manifest.k = v
SetField(o, k, v) ==
  IF HasField(o, k)
    THEN Obj([i \in 1 .. Len(o.s) |-> IF o.s[i][1] = k THEN <<k, v>> ELSE o.s[i]])
    ELSE Obj(Append(o.s, <<k, v>>))

\* manifest.k.push(item)
PushField(o, k, item) == SetField(o, k, Arr(Append(Field(o, k).s, item)))

RECURSIVE StringifyValue(_)
\* JSON.stringify: an object member whose value is undefined is left out,
\* members keep their insertion order, everything else is written as it is
StringifyValue(v) ==
  IF v.t = "obj"
    THEN LET kept == SelectSeq(v.s, LAMBDA e : e[2].t # "undef")
         IN  Obj([i \in 1 .. Len(kept) |-> <<kept[i][1], StringifyValue(kept[i][2])>>])
    ELSE IF v.t = "arr"
      THEN Arr([i \in 1 .. Len(v.s) |-> StringifyValue(v.s[i])])
      ELSE v

\* JSON.stringify(manifest, null, 2)
Stringify(v) == [t |-> "json", indent |-> 2, s |-> StringifyValue(v).s]

------------------------------------------------------------------------------
\* Inputs of a build

Targets == {"chrome", "firefox"}

Flags == [development : BOOLEAN, production : BOOLEAN, watch : BOOLEAN, test : BOOLEAN]

Profiles == {"production", "development", "none", "test"}

\* how an optional identifier appears in a profile of config.json
IdKinds == {"absent", "empty", "set"}

IdValue(kind, name, profile) ==
  CASE kind = "absent" -> Undefined
    [] kind = "empty" -> Str(<<>>)
    [] OTHER -> Str(<<name, profile>>)

\* config.json: one record per profile, every profile with values of its own
ConfigFileOf(keyKind, idKind) ==
  [m \in Profiles |->
     [clientId |-> Str(<<"clientId", m>>),
      clientSecret |-> Str(<<"clientSecret", m>>),
      rollbarToken |-> Str(<<"rollbarToken", m>>),
      tmdbApiKey |-> Str(<<"tmdbApiKey", m>>),
      chromeExtensionKey |-> IdValue(keyKind, "chromeExtensionKey", m),
      firefoxExtensionId |-> IdValue(idKind, "firefoxExtensionId", m)]]

PolyfillSrc == <<"node_modules", "webextension-polyfill", "dist", "browser-polyfill.min.js">>

\* the sources of the copies; the two under build are emitted by the compiler
CopySources ==
  {PolyfillSrc, <<"src", "html">>, <<"src", "_locales">>, <<"build", "fonts">>, <<"build", "images">>}

BuildPath(target, rel) == <<"build", target>> \o rel

Paths ==
  CopySources
    \cup {BuildPath(t, rel) : t \in Targets,
            rel \in {<<>>, <<"js">>, <<"js", "lib">>, <<"js", "lib", "browser-polyfill.js">>,
                     <<"html">>, <<"_locales">>, <<"fonts">>, <<"images">>, <<"manifest.json">>}}

Parent(path) == SubSeq(path, 1, Len(path) - 1)

Absent == [kind |-> "absent", data |-> Undefined]

Dir(data) == [kind |-> "dir", data |-> data]

File(data) == [kind |-> "file", data |-> data]

VARIABLES
  pkgVersion,   \* packageJson.version
  configFile,   \* contents of config.json
  missing,      \* copy sources that do not exist in this checkout / build
  wpconfig,     \* what getWebpackConfig returned
  phase,        \* per compile pass: the compiler's position
  runs,         \* per compile pass: the activation of runFinalSteps
  fs,           \* the file system
  firstTree,    \* the file system as the first completed assembly left it
  process       \* the node process

vars == <<pkgVersion, configFile, missing, wpconfig, phase, runs, fs, firstTree, process>>

------------------------------------------------------------------------------
\* getManifest

BaseManifest ==
  Obj(<<
    <<"manifest_version", Num(2)>>,
    <<"name", S("__MSG_appName__")>>,
    <<"version", pkgVersion>>,
    <<"description", S("__MSG_appDescription__")>>,
    <<"icons", Obj(<< <<"16", S("images/traktflix-icon-16.png")>>,
                      <<"128", S("images/traktflix-icon-128.png")>> >>)>>,
    <<"background", Obj(<< <<"scripts", Arr(<<S("js/lib/browser-polyfill.js"),
                                              S("js/background.js")>>)>> >>)>>,
    <<"content_scripts",
        Arr(<<Obj(<< <<"js", Arr(<<S("js/lib/browser-polyfill.js"), S("js/content.js")>>)>>,
                     <<"matches", Arr(<<S("*://*.netflix.com/*")>>)>>,
                     <<"run_at", S("document_idle")>> >>)>>)>>,
    <<"default_locale", S("en")>>,
    <<"optional_permissions", Arr(<<S("notifications"), S("*://api.rollbar.com/*"),
                                    S("*://script.google.com/*"),
                                    S("*://script.googleusercontent.com/*")>>)>>,
    <<"page_action", Obj(<< <<"default_icon",
                                Obj(<< <<"19", S("images/traktflix-icon-19.png")>>,
                                       <<"38", S("images/traktflix-icon-38.png")>> >>)>>,
                            <<"default_popup", S("html/popup.html")>>,
                            <<"default_title", S("traktflix")>> >>)>>,
    <<"permissions", Arr(<<S("identity"), S("storage"), S("tabs"), S("unlimitedStorage"),
                           S("*://*.netflix.com/*"), S("*://*.trakt.tv/*")>>)>>,
    <<"web_accessible_resources", Arr(<<S("images/traktflix-icon-38.png"),
                                        S("images/traktflix-icon-selected-38.png"),
                                        S("images/svg/*.svg")>>)>>
  >>)

\* the chrome case with the test of chromeExtensionKey left out
ChromeManifestAlwaysKey(configJson, manifest) ==
  PushField(SetField(manifest, "key", configJson.chromeExtensionKey),
            "permissions", S("declarativeContent"))

\* case 'chrome'
ChromeManifest(configJson, manifest) ==
  LET keyed == IF Truthy(configJson.chromeExtensionKey)
                 THEN SetField(manifest, "key", configJson.chromeExtensionKey)
                 ELSE manifest
  IN  PushField(keyed, "permissions", S("declarativeContent"))

\* case 'firefox'
FirefoxManifest(configJson, manifest) ==
  LET pushed == PushField(manifest, "optional_permissions", S("cookies"))
  IN  IF Truthy(configJson.firefoxExtensionId)
        THEN SetField(pushed, "browser_specific_settings",
                      Obj(<< <<"gecko", Obj(<< <<"id", configJson.firefoxExtensionId>> >>)>> >>))
        ELSE pushed

GetManifest(configJson, browserName) ==
  LET manifest == BaseManifest
  IN  Stringify(CASE browserName = "chrome" -> ChromeManifest(configJson, manifest)
                  [] browserName = "firefox" -> FirefoxManifest(configJson, manifest)
                  [] OTHER -> manifest)

------------------------------------------------------------------------------
\* getWebpackConfig

\* mode resolution with the two tests in the other order
GetModeDevelopmentFirst(env) ==
  IF env.development THEN "development"
  ELSE IF env.production THEN "production"
  ELSE "none"


GetMode(env) ==
  IF env.production THEN "production"
  ELSE IF env.development THEN "development"
  ELSE "none"

\* profile selection that follows the test flag the way envName does
ConfigJsonTestProfile(env) ==
  configFile[IF env.test THEN "test"
             ELSE IF env.production THEN "production"
             ELSE IF env.development THEN "development"
             ELSE "none"]


ConfigJson(env) == configFile[GetMode(env)]

Devtool(env) == IF env.production THEN "false" ELSE "source-map"

\* the string-replace-loader rule for settings.js
ReplaceRule(configJson) ==
  <<[search |-> "@@clientId", replace |-> configJson.clientId],
    [search |-> "@@clientSecret", replace |-> configJson.clientSecret],
    [search |-> "@@rollbarToken", replace |-> configJson.rollbarToken],
    [search |-> "@@tmdbApiKey", replace |-> configJson.tmdbApiKey]>>

ExternalPlugin(name) == [name |-> name, hook |-> "none", arg |-> Undefined]

\* plugins.runAfterBuild: taps the compiler's afterEmit hook with the callback,
\* here () => runFinalSteps(configJson)
RunAfterBuild(configJson) == [name |-> "RunAfterBuild", hook |-> "afterEmit", arg |-> configJson]

\* the plugin list without the test of env.test
PluginsAlwaysHook(env, configJson) ==
  <<ExternalPlugin("CleanWebpackPlugin"), ExternalPlugin("ProgressBarPlugin"),
    RunAfterBuild(configJson)>>


Plugins(env, configJson) ==
  <<ExternalPlugin("CleanWebpackPlugin"), ExternalPlugin("ProgressBarPlugin")>>
    \o (IF env.test THEN <<>> ELSE <<RunAfterBuild(configJson)>>)

Entry ==
  {<<t, "js", m>> : t \in Targets, m \in {"background", "content", "history-sync", "options", "popup"}}

WatchOptions == [aggregateTimeout |-> 1000, ignored |-> "node_modules", poll |-> 1000]

GetWebpackConfig(env) ==
  LET mode == GetMode(env)
      configJson == ConfigJson(env)
  IN  [called |-> TRUE,
       env |-> env,
       devtool |-> Devtool(env),
       entry |-> Entry,
       mode |-> mode,
       replace |-> ReplaceRule(configJson),
       envName |-> IF env.test THEN "test" ELSE mode,
       plugins |-> Plugins(env, configJson),
       watch |-> (env.development /\ env.watch),
       watchOptions |-> WatchOptions]

NotConfigured == [called |-> FALSE]

\* the taps on afterEmit among the configured plugins
AfterEmitTaps(config) == SelectSeq(config.plugins, LAMBDA pl : pl.hook = "afterEmit")

------------------------------------------------------------------------------
\* fs / fs-extra calls; each returns the file system it leaves and the error
\* it throws ("" when it returns normally)

Ok(f) == [err |-> "", fs |-> f]

Throw(code, f) == [err |-> code, fs |-> f]

ExistsSync(f, path) == f[path].kind # "absent"

MkdirSync(f, path) ==
  IF f[path].kind # "absent" THEN Throw("EEXIST", f)
  ELSE IF f[Parent(path)].kind # "dir" THEN Throw("ENOENT", f)
  ELSE Ok([f EXCEPT ![path] = Dir(S("directory"))])

CopyFileSync(f, from, to) ==
  IF f[from].kind # "file" \/ f[Parent(to)].kind # "dir" THEN Throw("ENOENT", f)
  ELSE Ok([f EXCEPT ![to] = File(f[from].data)])

\* fs-extra copySync of a folder: recursive, creates the destination, overwrites
CopySync(f, from, to) ==
  IF f[from].kind = "absent" THEN Throw("ENOENT", f)
  ELSE Ok([f EXCEPT ![to] = f[from]])

WriteFileSync(f, path, data) ==
  IF f[Parent(path)].kind # "dir" THEN Throw("ENOENT", f)
  ELSE Ok([f EXCEPT ![path] = File(data)])

------------------------------------------------------------------------------
\* runFinalSteps

LibDir(target) == BuildPath(target, <<"js", "lib">>)

\* directory preparation without the existsSync test
EnsureLibDirNoCheck(f, path) == MkdirSync(f, path)

\* if (!fs.existsSync(dir)) { fs.mkdirSync(dir); }
EnsureLibDir(f, path) == IF ExistsSync(f, path) THEN Ok(f) ELSE MkdirSync(f, path)

filesToCopy ==
  <<[from |-> PolyfillSrc, to |-> BuildPath("chrome", <<"js", "lib", "browser-polyfill.js">>)],
    [from |-> PolyfillSrc, to |-> BuildPath("firefox", <<"js", "lib", "browser-polyfill.js">>)]>>

\* the folder list with the last copy forgotten
foldersToCopyShort ==
  <<[from |-> <<"src", "html">>, to |-> BuildPath("chrome", <<"html">>)],
    [from |-> <<"src", "_locales">>, to |-> BuildPath("chrome", <<"_locales">>)],
    [from |-> <<"build", "fonts">>, to |-> BuildPath("chrome", <<"fonts">>)],
    [from |-> <<"build", "images">>, to |-> BuildPath("chrome", <<"images">>)],
    [from |-> <<"src", "html">>, to |-> BuildPath("firefox", <<"html">>)],
    [from |-> <<"src", "_locales">>, to |-> BuildPath("firefox", <<"_locales">>)],
    [from |-> <<"build", "fonts">>, to |-> BuildPath("firefox", <<"fonts">>)]>>


foldersToCopy ==
  <<[from |-> <<"src", "html">>, to |-> BuildPath("chrome", <<"html">>)],
    [from |-> <<"src", "_locales">>, to |-> BuildPath("chrome", <<"_locales">>)],
    [from |-> <<"build", "fonts">>, to |-> BuildPath("chrome", <<"fonts">>)],
    [from |-> <<"build", "images">>, to |-> BuildPath("chrome", <<"images">>)],
    [from |-> <<"src", "html">>, to |-> BuildPath("firefox", <<"html">>)],
    [from |-> <<"src", "_locales">>, to |-> BuildPath("firefox", <<"_locales">>)],
    [from |-> <<"build", "fonts">>, to |-> BuildPath("firefox", <<"fonts">>)],
    [from |-> <<"build", "images">>, to |-> BuildPath("firefox", <<"images">>)]>>

filesToCreate(configJson) ==
  <<[data |-> GetManifest(configJson, "chrome"), path |-> BuildPath("chrome", <<"manifest.json">>)],
    [data |-> GetManifest(configJson, "firefox"), path |-> BuildPath("firefox", <<"manifest.json">>)]>>

libDirs == <<LibDir("chrome"), LibDir("firefox")>>

Stmt(op, idx) == [op |-> op, idx |-> idx]

\* the statements with the manifests written before the folders are copied
RunFinalStepsManifestFirst ==
  [i \in 1 .. Len(libDirs) |-> Stmt("ensureDir", i)]
    \o [i \in 1 .. Len(filesToCopy) |-> Stmt("copyFile", i)]
    \o <<Stmt("filesToCreate", 0)>>
    \o [i \in 1 .. Cardinality(Targets) |-> Stmt("writeFile", i)]
    \o [i \in 1 .. Len(foldersToCopy) |-> Stmt("copyFolder", i)]

\* the statements of runFinalSteps in program order
RunFinalSteps ==
  [i \in 1 .. Len(libDirs) |-> Stmt("ensureDir", i)]
    \o [i \in 1 .. Len(filesToCopy) |-> Stmt("copyFile", i)]
    \o [i \in 1 .. Len(foldersToCopy) |-> Stmt("copyFolder", i)]
    \o <<Stmt("filesToCreate", 0)>>
    \o [i \in 1 .. Cardinality(Targets) |-> Stmt("writeFile", i)]

NotStarted == [status |-> "notStarted", pc |-> 1, log |-> <<>>, created |-> <<>>, err |-> ""]

\* what one statement does to the file system, given the list built so far
Exec(stmt, f, created) ==
  CASE stmt.op = "ensureDir" -> EnsureLibDir(f, libDirs[stmt.idx])
    [] stmt.op = "copyFile" -> CopyFileSync(f, filesToCopy[stmt.idx].from, filesToCopy[stmt.idx].to)
    [] stmt.op = "copyFolder" -> CopySync(f, foldersToCopy[stmt.idx].from, foldersToCopy[stmt.idx].to)
    [] stmt.op = "writeFile" -> WriteFileSync(f, created[stmt.idx].path, created[stmt.idx].data)
    [] OTHER -> Ok(f)

\* the path a statement works on, for the log of the pass
StmtPath(stmt, created) ==
  CASE stmt.op = "ensureDir" -> libDirs[stmt.idx]
    [] stmt.op = "copyFile" -> filesToCopy[stmt.idx].to
    [] stmt.op = "copyFolder" -> foldersToCopy[stmt.idx].to
    [] stmt.op = "writeFile" -> created[stmt.idx].path
    [] OTHER -> <<>>

\* a routine that awaited its file operations would give the thread back
OnCallStackAsync(p) == FALSE

\* the callback is still running: every call in runFinalSteps is synchronous
\* and the function never awaits, so it holds the thread until it settles
OnCallStack(p) == runs[p].status = "running"

HookArg == AfterEmitTaps(wpconfig)[1].arg

------------------------------------------------------------------------------
\* State machine

InitFs ==
  [path \in Paths |->
     IF path \in {PolyfillSrc} \ missing THEN File(S("browser-polyfill.min.js"))
     ELSE IF path \in {<<"src", "html">>, <<"src", "_locales">>} \ missing THEN Dir(Str(path))
     ELSE Absent]

Init ==
  /\ pkgVersion \in {S("1.0.0"), Undefined}
  /\ \E keyKind \in IdKinds, idKind \in IdKinds : configFile = ConfigFileOf(keyKind, idKind)
  /\ missing \in SUBSET CopySources
  /\ wpconfig = NotConfigured
  /\ phase = [p \in Passes |-> "idle"]
  /\ runs = [p \in Passes |-> NotStarted]
  /\ fs = InitFs
  /\ firstTree = InitFs
  /\ process = "running"

\* webpack calls the exported function with the environment of the command line
CallGetWebpackConfig ==
  /\ process = "running"
  /\ ~wpconfig.called
  /\ \E env \in Flags : wpconfig' = GetWebpackConfig(env)
  /\ UNCHANGED <<pkgVersion, configFile, missing, phase, runs, fs, firstTree, process>>

\* the first compile pass starts
Compile ==
  /\ process = "running"
  /\ wpconfig.called
  /\ phase[1] = "idle"
  /\ phase' = [phase EXCEPT ![1] = "compiling"]
  /\ UNCHANGED <<pkgVersion, configFile, missing, wpconfig, runs, fs, firstTree, process>>

\* watch mode: a file changed and the next compile pass starts
Recompile(p) ==
  /\ process = "running"
  /\ p > 1
  /\ wpconfig.called /\ wpconfig.watch
  /\ phase[p - 1] = "done" /\ phase[p] = "idle"
  /\ runs[p - 1].status # "rejected"
  /\ phase' = [phase EXCEPT ![p] = "compiling"]
  /\ UNCHANGED <<pkgVersion, configFile, missing, wpconfig, runs, fs, firstTree, process>>

\* what the compiler writes under build: the entry scripts of both targets and
\* whatever fonts and images the file-loader rules matched
Emitted(f) ==
  [path \in Paths |->
     IF path \in {BuildPath(t, <<>>) : t \in Targets} THEN Dir(S("directory"))
     ELSE IF path \in {BuildPath(t, <<"js">>) : t \in Targets} THEN Dir(S("compiled scripts"))
     ELSE IF path \in {<<"build", "fonts">>, <<"build", "images">>} \ missing THEN Dir(Str(path))
     ELSE f[path]]

\* the compiler has emitted the assets of pass p and calls the afterEmit taps;
\* the tap of RunAfterBuild calls runFinalSteps(configJson)
EmitAssets(p) ==
  /\ process = "running"
  /\ phase[p] = "compiling"
  /\ fs' = Emitted(fs)
  /\ phase' = [phase EXCEPT ![p] = "afterEmit"]
  /\ runs' = IF AfterEmitTaps(wpconfig) # <<>>
               THEN [runs EXCEPT ![p] = [NotStarted EXCEPT !.status = "running", !.log = <<[op |-> "emit", idx |-> p, path |-> <<"build">>]>>]]
               ELSE runs
  /\ UNCHANGED <<pkgVersion, configFile, missing, wpconfig, firstTree, process>>

\* one statement of runFinalSteps in pass p; an exception rejects the promise
\* of the async function, the return after the last statement fulfils it
Step(p) ==
  /\ process = "running"
  /\ runs[p].status = "running"
  /\ LET run == runs[p]
         stmt == RunFinalSteps[run.pc]
         created == IF stmt.op = "filesToCreate" THEN filesToCreate(HookArg) ELSE run.created
         res == Exec(stmt, fs, created)
         last == run.pc = Len(RunFinalSteps)
     IN  /\ fs' = res.fs
         /\ runs' = [runs EXCEPT ![p] =
                       IF res.err # ""
                         THEN [run EXCEPT !.status = "rejected", !.err = res.err]
                         ELSE [status |-> IF last THEN "fulfilled" ELSE "running",
                               pc |-> run.pc + 1,
                               log |-> Append(run.log, [op |-> stmt.op, idx |-> stmt.idx,
                                                        path |-> StmtPath(stmt, created)]),
                               created |-> created,
                               err |-> ""]]
         /\ firstTree' = IF p = 1 /\ res.err = "" /\ last THEN res.fs ELSE firstTree
  /\ UNCHANGED <<pkgVersion, configFile, missing, wpconfig, phase, process>>

\* the afterEmit taps have returned (the tap is synchronous and ignores what
\* the callback returns): the compiler goes on and reports the pass as done
AfterEmitReturns(p) ==
  /\ process = "running"
  /\ phase[p] = "afterEmit"
  /\ ~OnCallStack(p)
  /\ phase' = [phase EXCEPT ![p] = "done"]
  /\ UNCHANGED <<pkgVersion, configFile, missing, wpconfig, runs, fs, firstTree, process>>

\* nobody handles the rejected promise of runFinalSteps; what node does with
\* an unhandled rejection depends on its version and flags: it prints a
\* warning and goes on, or it terminates the process with a non-zero exit
UnhandledRejection(p) ==
  /\ process = "running"
  /\ runs[p].status = "rejected"
  /\ phase[p] = "done"
  /\ runs' = [runs EXCEPT ![p].status = "reported"]
  /\ process' \in {"running", "exited"}
  /\ UNCHANGED <<pkgVersion, configFile, missing, wpconfig, phase, fs, firstTree>>

Next ==
  \/ CallGetWebpackConfig
  \/ Compile
  \/ \E p \in Passes : Recompile(p)
  \/ \E p \in Passes : EmitAssets(p)
  \/ \E p \in Passes : Step(p)
  \/ \E p \in Passes : AfterEmitReturns(p)
  \/ \E p \in Passes : UnhandledRejection(p)

Spec == Init /\ [][Next]_vars

TypeOK ==
  /\ process \in {"running", "exited"}
  /\ \A p \in Passes : phase[p] \in {"idle", "compiling", "afterEmit", "done"}
  /\ \A p \in Passes : runs[p].status \in {"notStarted", "running", "fulfilled", "rejected", "reported"}

------------------------------------------------------------------------------
\* Properties

Env == wpconfig.env

HookRegistered == wpconfig.called /\ AfterEmitTaps(wpconfig) # <<>>

Failed(p) == runs[p].status \in {"rejected", "reported"}

PolyfillDest(t) == BuildPath(t, <<"js", "lib", "browser-polyfill.js">>)

ManifestPath(t) == BuildPath(t, <<"manifest.json">>)

CopiedFolders == {"html", "_locales", "fonts", "images"}

FolderSource(d) == IF d \in {"html", "_locales"} THEN <<"src", d>> ELSE <<"build", d>>

\* the paths runFinalSteps writes
AssemblyPaths ==
  {LibDir(t) : t \in Targets} \cup {PolyfillDest(t) : t \in Targets}
    \cup {ManifestPath(t) : t \in Targets}
    \cup {BuildPath(t, <<d>>) : t \in Targets, d \in CopiedFolders}

Before(log, j, op, path) == \E i \in 1 .. (j - 1) : log[i].op = op /\ log[i].path = path

Occurrences(arr, item) == Cardinality({i \in 1 .. Len(arr.s) : arr.s[i] = item})

\* C1: within a pass, the manifest of a target is written only after the
\* emit of that pass, after the target's js/lib was ensured, after the polyfill
\* was copied into it and after its four folders were copied; the routine of
\* a pass runs only once the compiler has emitted that pass
ManifestWrittenLast ==
  \A p \in Passes :
    /\ runs[p].status # "notStarted" =>
         phase[p] \in {"afterEmit", "done"} /\ runs[p].log[1].op = "emit" /\ runs[p].log[1].idx = p
    /\ \A j \in 1 .. Len(runs[p].log), t \in Targets :
         (runs[p].log[j].op = "writeFile" /\ runs[p].log[j].path = ManifestPath(t)) =>
           /\ Before(runs[p].log, j, "emit", <<"build">>)
           /\ Before(runs[p].log, j, "ensureDir", LibDir(t))
           /\ Before(runs[p].log, j, "copyFile", PolyfillDest(t))
           /\ \A d \in CopiedFolders : Before(runs[p].log, j, "copyFolder", BuildPath(t, <<d>>))

BothManifestsWritten ==
  \E p \in Passes :
    \A t \in Targets :
      \E j \in 1 .. Len(runs[p].log) :
        runs[p].log[j].op = "writeFile" /\ runs[p].log[j].path = ManifestPath(t)

\* the output tree of a target holds everything the routine assembles, the
\* manifest carrying the identifiers of the profile of the resolved mode
Assembled(t) ==
  LET manifest == fs[ManifestPath(t)].data
      profile == configFile[wpconfig.mode]
  IN  /\ fs[BuildPath(t, <<"js">>)].kind = "dir"
      /\ fs[LibDir(t)].kind = "dir"
      /\ fs[PolyfillDest(t)] = File(S("browser-polyfill.min.js"))
      /\ \A d \in CopiedFolders : fs[BuildPath(t, <<d>>)] = Dir(Str(FolderSource(d)))
      /\ fs[ManifestPath(t)].kind = "file"
      /\ t = "chrome" =>
           /\ Occurrences(Field(manifest, "permissions"), S("declarativeContent")) = 1
           /\ Field(manifest, "key") =
                (IF Truthy(profile.chromeExtensionKey) THEN profile.chromeExtensionKey ELSE Undefined)
      /\ t = "firefox" =>
           /\ Occurrences(Field(manifest, "optional_permissions"), S("cookies")) = 1
           /\ Field(Field(Field(manifest, "browser_specific_settings"), "gecko"), "id") =
                (IF Truthy(profile.firefoxExtensionId) THEN profile.firefoxExtensionId ELSE Undefined)

\* C2: when the afterEmit hook of a non-test pass has returned and the routine
\* did not fail, both target trees hold the polyfill, the four copied folders
\* and the manifest generated from the profile of the resolved mode
CompletedPassIsAssembled ==
  \A p \in Passes :
    (HookRegistered /\ phase[p] = "done" /\ ~Failed(p)) => \A t \in Targets : Assembled(t)

PassCompletedCleanly == \E p \in Passes : HookRegistered /\ phase[p] = "done" /\ ~Failed(p)

\* C3: with test set the plugin list holds no RunAfterBuild hook, whatever the
\* other flags, and no pass ever runs the routine or writes one of its outputs;
\* with test unset the list holds exactly one such hook
TestBuildsSkipAssembly ==
  wpconfig.called =>
    /\ Env.test =>
         /\ \A i \in 1 .. Len(wpconfig.plugins) : wpconfig.plugins[i].name # "RunAfterBuild"
         /\ \A p \in Passes : runs[p].status = "notStarted"
         /\ \A path \in AssemblyPaths : fs[path].kind = "absent"
    /\ ~Env.test =>
         Cardinality({i \in 1 .. Len(wpconfig.plugins) :
                        wpconfig.plugins[i].name = "RunAfterBuild"
                          /\ wpconfig.plugins[i].hook = "afterEmit"}) = 1

TestWatchRebuildDone ==
  wpconfig.called /\ Env.test /\ Env.development /\ Env.watch /\ phase[MaxPasses] = "done"

\* C4: production set gives mode production and no source maps, also when
\* development is set; otherwise development set gives mode development with
\* source maps; otherwise the mode is none.  The values substituted into
\* settings.js and the config handed to the assembly hook are those of the
\* profile keyed by that mode
ModeResolution ==
  wpconfig.called =>
    /\ Env.production => wpconfig.mode = "production" /\ wpconfig.devtool = "false"
    /\ (~Env.production /\ Env.development) =>
         wpconfig.mode = "development" /\ wpconfig.devtool = "source-map"
    /\ (~Env.production /\ ~Env.development) => wpconfig.mode = "none"
    /\ \A i \in 1 .. Len(wpconfig.replace) :
         wpconfig.replace[i].replace \in
           {configFile[wpconfig.mode].clientId, configFile[wpconfig.mode].clientSecret,
            configFile[wpconfig.mode].rollbarToken, configFile[wpconfig.mode].tmdbApiKey}
    /\ wpconfig.replace[1].replace = configFile[wpconfig.mode].clientId
    /\ HookRegistered => HookArg = configFile[wpconfig.mode]

BothModeFlagsSet == wpconfig.called /\ Env.production /\ Env.development /\ HookRegistered

ManifestsBuilt ==
  {runs[p].created[i] : p \in {q \in Passes : runs[q].created # <<>>}, i \in 1 .. 2}

\* C5: the chrome manifest has a key exactly when the config provides a
\* (non-empty) chromeExtensionKey, and then that value; the firefox manifest
\* has browser_specific_settings exactly when the config provides a
\* (non-empty) firefoxExtensionId, and then gecko.id is that value
ConditionalIdentifiers ==
  \A m \in ManifestsBuilt :
    /\ m.path = ManifestPath("chrome") =>
         /\ HasField(m.data, "key") <=> Truthy(HookArg.chromeExtensionKey)
         /\ HasField(m.data, "key") => Field(m.data, "key") = HookArg.chromeExtensionKey
    /\ m.path = ManifestPath("firefox") =>
         /\ HasField(m.data, "browser_specific_settings") <=> Truthy(HookArg.firefoxExtensionId)
         /\ HasField(m.data, "browser_specific_settings") =>
              Field(Field(Field(m.data, "browser_specific_settings"), "gecko"), "id")
                = HookArg.firefoxExtensionId

KeyWithoutGeckoId ==
  /\ ManifestsBuilt # {}
  /\ Truthy(HookArg.chromeExtensionKey)
  /\ ~Truthy(HookArg.firefoxExtensionId)

SubstitutedFrom(profile) ==
  /\ wpconfig.replace[1].replace = configFile[profile].clientId
  /\ wpconfig.replace[2].replace = configFile[profile].clientSecret
  /\ wpconfig.replace[3].replace = configFile[profile].rollbarToken
  /\ wpconfig.replace[4].replace = configFile[profile].tmdbApiKey

\* C6 as stated: with test set the substituted values come from a dedicated
\* test profile
TestProfileSubstituted == (wpconfig.called /\ Env.test) => SubstitutedFrom("test")

\* C6 amended: with test set the substituted values are still those of the
\* profile of the mode the production and development flags resolve to; the
\* test flag only names the babel environment
TestKeepsModeProfile ==
  (wpconfig.called /\ Env.test) =>
    /\ wpconfig.envName = "test"
    /\ Env.production => SubstitutedFrom("production")
    /\ (~Env.production /\ Env.development) => SubstitutedFrom("development")
    /\ (~Env.production /\ ~Env.development) => SubstitutedFrom("none")

TestWithProduction == wpconfig.called /\ Env.test /\ Env.production

\* C7 as stated: when the package version is missing no manifest is built or
\* written, and no manifest ever lacks the version field
MissingVersionFailsFast ==
  /\ pkgVersion.t = "undef" =>
       /\ ManifestsBuilt = {}
       /\ \A t \in Targets : fs[ManifestPath(t)].kind = "absent"
  /\ \A t \in Targets :
       fs[ManifestPath(t)].kind = "file" => HasField(fs[ManifestPath(t)].data, "version")

\* C8 as stated: a pass whose routine stopped at a failing copy writes no
\* manifest, is never reported as done by the compiler, and the failure
\* terminates the build
CopyFailureAbortsBuild ==
  \A p \in Passes :
    Failed(p) =>
      /\ \A j \in 1 .. Len(runs[p].log) : runs[p].log[j].op # "writeFile"
      /\ phase[p] # "done"
      /\ runs[p].status = "reported" => process = "exited"

\* C9: once the first assembly has completed, no later run of the routine
\* fails, every path the routine writes stays as the first run left it, and
\* the per-target permissions appear once in the manifests
RerunLeavesTreeUnchanged ==
  runs[1].status = "fulfilled" =>
    /\ \A p \in Passes : ~Failed(p)
    /\ \A path \in AssemblyPaths : fs[path] = firstTree[path]
    /\ Occurrences(Field(fs[ManifestPath("chrome")].data, "permissions"),
                   S("declarativeContent")) = 1
    /\ Occurrences(Field(fs[ManifestPath("firefox")].data, "optional_permissions"),
                   S("cookies")) = 1

RoutineRanAgain == \E p \in Passes : p > 1 /\ runs[p].status = "fulfilled"

\* C10 as stated: in watch mode an assembly pass in flight does not hold the
\* compiler back: the hook can return, and so the next pass can be compiled
\* and start its own assembly, while the pass has statements left to run
InFlightPassYieldsToCompiler ==
  \A p \in Passes :
    (wpconfig.called /\ wpconfig.watch /\ runs[p].status = "running") =>
      ENABLED AfterEmitReturns(p)

\* C10 amended: the hook fires once for each emitted pass, and a pass in
\* flight runs to its end before the compiler does anything else: no two
\* passes are in flight together and no other pass is compiling or emitting
PassesDoNotInterleave ==
  /\ \A p \in Passes :
       HookRegistered => (runs[p].status # "notStarted" <=> phase[p] \in {"afterEmit", "done"})
  /\ Cardinality({p \in Passes : runs[p].status = "running"}) <= 1
  /\ \A p \in Passes :
       runs[p].status = "running" =>
         \A q \in Passes \ {p} :
           /\ phase[q] \in {"idle", "done"}
           /\ q < p => runs[q].status \in {"fulfilled", "reported"}

WatchRebuildInFlight ==
  \E p \in Passes :
    p > 1 /\ wpconfig.called /\ wpconfig.watch /\ runs[p].status = "running" /\ runs[p].pc > 1

====
